---- MODULE Spec2Model ----
(***************************************************************************)
(* The agent orchestrator of backend/agents/adk_orchestrator.py: an       *)
(* in-memory event bus, two periodic producer agents (telemetry, weather), *)
(* the strategy agent that fuses the latest sample of each producer into   *)
(* an insight, and the orchestrator that starts and stops them and exposes *)
(* the strategy agent's queue as a stream; and the LLM wrapper of          *)
(* backend/services/gemini_service.py, which stands alone.                 *)
(*                                                                         *)
(* Everything runs on one asyncio event loop, so a step of the model is    *)
(* the code a coroutine runs between two points where it really suspends   *)
(* (asyncio.sleep, the await of gather, the await of a cancelled task, an  *)
(* LLM call that returns a coroutine, a get on an empty queue).  The put   *)
(* on the unbounded queue never suspends.  The coroutines handed to one    *)
(* gather are made ready together and the loop runs its ready callbacks in  *)
(* order, so they run back to back, with nothing between them.             *)
(*                                                                         *)
(* Numbers: tyre wear is kept in tenths of a percent, rain probability in  *)
(* hundredths, pace delta in thousandths of a second, confidence in        *)
(* hundredths.  Sample fields that no handler reads (sector_times, speed,  *)
(* fuel_kg, position, temp_c, track_temp_c, wind_kph) and the event's      *)
(* wall-clock "ts" are left out of the payloads.                           *)
(***************************************************************************)
EXTENDS Integers, Sequences, FiniteSets, TLC

\* ------------------------------------------------------------- bounds
\* Publishes allowed per topic.
MaxPub == 2
\* Subscriptions made by callers other than the strategy agent.
MaxExtSubs == 2
\* Publish calls made by callers other than the agents.
MaxExtPubs == 3

\* Run-loop tasks of one agent that are not done, at a gather of start().
MaxTasks == 2
\* Candidates in one provider response.
MaxCandidates == 2

\* ---------------------------------------------------------- constants
TEL == "telemetry.sample"
WX == "weather.sample"
SI == "strategy.insight"
Topics == {TEL, WX, SI}

Agents == {"telemetry", "weather", "strategy"}
Producers == {"telemetry", "weather"}

\* The strategy agent's two bound methods, and callbacks of other callers.
ExtCallbacks == {"ext1", "ext2"}
\* A callback of another caller that raises an exception when it is called.
FaultyCallbacks == {"faulty"}
Callbacks == {"on_telemetry", "on_weather"} \cup ExtCallbacks

Compounds == {"SOFT", "MEDIUM", "HARD"}
\* round(uniform(2, 40), 1), in tenths of a percent: one value on each side
\* of the wear threshold.
WearValues == {300, 360}
\* The (compound, wear) pairs the telemetry loop draws from in the program's
\* specification: the lap number tells its samples apart, and with this pair
\* the rain decides whether a pit stop is recommended.
TelemetryDraws == {<<"SOFT", 300>>}
\* round(uniform(0, 0.6), 2), in hundredths: one value on each side of the
\* rain thresholds.
RainValues == {30, 51}

\* random.randint(1, 3)
PitLaps == 1..3

\* wear > 35
WearPitThreshold == 350
\* rain > 0.45
RainPitThreshold == 45
\* rain > 0.5
RainIntersThreshold == 50

\* Python's None, and the values of the two Optional fields of an insight
\* (an int or a str, kept apart from None by their class).
NoneV == [cls |-> "NoneType"]
IntV(n) == [cls |-> "int", v |-> n]
StrV(s) == [cls |-> "str", v |-> s]

Min(a, b) == IF a < b THEN a ELSE b
Max(a, b) == IF a > b THEN a ELSE b
Abs(a) == IF a < 0 THEN 0 - a ELSE a

\* ---------------------------------------------------------- data models
TelemetryFields == {"car_id", "lap", "tyre_compound", "tyre_wear_pct"}
WeatherFields == {"rain_prob"}

\* sample.__dict__ of a TelemetrySample built in TelemetryAgent._run
TelemetryPayload(lap, compound, wear) ==
  [car_id |-> "RD01", lap |-> lap, tyre_compound |-> compound,
   tyre_wear_pct |-> wear]

\* sample.__dict__ of a WeatherSample built in WeatherAgent._run
WeatherPayload(rain) == [rain_prob |-> rain]

\* TelemetrySample(**payload): an object of the class holding the fields
TelemetrySample(payload) == [cls |-> "TelemetrySample", f |-> payload]
WeatherSample(payload) == [cls |-> "WeatherSample", f |-> payload]

StrategyInsight(rin, target, pace, rain, conf) ==
  [cls |-> "StrategyInsight",
   f |-> [recommended_pit_in_laps |-> rin, target_compound |-> target,
          pace_delta_s |-> pace, risk_rain |-> rain, confidence |-> conf]]

\* dataclass_to_dict: an object with a __dict__ becomes the dict of its
\* fields (every field value here is a number, a string or None, which the
\* function returns as it is); anything else is returned unchanged.
dataclass_to_dict(obj) ==
  IF "f" \in DOMAIN obj THEN obj.f ELSE obj

\* round(x, 2) of a value given in thousandths, as hundredths (ties to even).
Round2(milli) ==
  LET q == milli \div 10
      r == milli % 10
  IN IF r < 5 THEN q
     ELSE IF r > 5 THEN q + 1
     ELSE IF q % 2 = 0 THEN q ELSE q + 1

\* _compute_insight with the wear test written >= .
ComputeInsightGe(tel, wx, rnd) ==
  LET wear == tel.f.tyre_wear_pct
      rain == wx.f.rain_prob
      pace == Max(0, (wear - 100) * 5) + rain * 2
      pit == \/ wear >= WearPitThreshold
             \/ /\ rain > RainPitThreshold
                /\ tel.f.tyre_compound \in {"SOFT", "MEDIUM"}
      rin == IF pit THEN IntV(rnd) ELSE NoneV
      target == IF ~pit THEN NoneV
                ELSE IF rain > RainIntersThreshold THEN StrV("INTERS")
                ELSE IF tel.f.tyre_compound # "HARD" THEN StrV("HARD")
                ELSE StrV("MEDIUM")
      c0 == 600 + (400 - Min(400, Abs(300 - rain * 10))) - Min(300, wear)
      conf == Max(100, Min(950, c0))
  IN StrategyInsight(rin, target, pace, rain, Round2(conf))

\* StrategyAgent._compute_insight, up to the optional LLM call; rnd is the
\* value random.randint(1, 3) returns when it is called.
ComputeInsight(tel, wx, rnd) ==
  LET wear == tel.f.tyre_wear_pct
      rain == wx.f.rain_prob
      pace == Max(0, (wear - 100) * 5) + rain * 2
      pit == \/ wear > WearPitThreshold
             \/ /\ rain > RainPitThreshold
                /\ tel.f.tyre_compound \in {"SOFT", "MEDIUM"}
      rin == IF pit THEN IntV(rnd) ELSE NoneV
      target == IF ~pit THEN NoneV
                ELSE IF rain > RainIntersThreshold THEN StrV("INTERS")
                ELSE IF tel.f.tyre_compound # "HARD" THEN StrV("HARD")
                ELSE StrV("MEDIUM")
      c0 == 600 + (400 - Min(400, Abs(300 - rain * 10))) - Min(300, wear)
      conf == Max(100, Min(950, c0))
  IN StrategyInsight(rin, target, pace, rain, Round2(conf))

\* ------------------------------------------------------------- state
Callers == {"c1", "c2"}
Consumers == {"k1", "k2"}

VARIABLES
  subs,          \* EventBus._subs: topic -> the callbacks, in registration order
  started,       \* ADKOrchestrator._started
  running,       \* agent -> its _running flag
  task,          \* agent -> its _task: an index of tasks[agent], 0 for None
  tasks,         \* agent -> its run-loop tasks not yet collected, oldest first
  latest_tel,    \* StrategyAgent._latest_tel
  latest_wx,     \* StrategyAgent._latest_wx
  gemini,        \* StrategyAgent._gemini is set
  svc,           \* the GeminiService object and its latest call, or None
  stream,        \* consumer -> "open", or "ended" if its stream has finished
  queue,         \* StrategyAgent._queue
  call,          \* caller -> where in start() or stop() it is suspended
  \* history, read by no action
  pubs,          \* topic -> the number of publish calls on it
  lastPub,       \* topic -> the payload of the latest publish call on it
  lastDispatch,  \* the latest publish call: who, what, to whom
  recv,          \* external callback -> the number of events it was called with
  regs,          \* topic -> the callbacks in the order of the subscribe calls
  inRun,         \* producer -> it has published since start() last started it
  enq,           \* every insight put on the queue, in order
  yielded,       \* every item the stream has yielded, in order
  skipped        \* a strategy cycle has found a sample missing and skipped

vars == <<subs, started, running, task, tasks, latest_tel, latest_wx, gemini,
          svc, stream,
          queue, call, pubs, lastPub, lastDispatch, recv, regs, inRun, enq,
          yielded, skipped>>

busVars == <<subs, latest_tel, latest_wx, pubs, lastPub, lastDispatch, recv,
            regs, inRun>>
lifeVars == <<started, running, task, tasks, call>>

\* A task created by asyncio.create_task(self._run()): not yet run, lap = 1
\* for the telemetry loop, no snapshot held.
NewTask == [pc |-> "loop", lap |-> 1, tel |-> NoneV, wx |-> NoneV, rnd |-> 0]

\* task.done()
Done(t) == t.pc \in {"done", "cancelled", "failed"}

\* The tasks of agent a that have been created and have not finished.
Live(a) == {i \in 1..Len(tasks[a]) : ~Done(tasks[a][i])}

NoDispatch ==
  [by |-> "none", ev |-> NoneV, cbs |-> <<>>, invoked |-> <<>>,
   raised |-> FALSE]

\* ------------------------------------------------------------ event bus
\* Event({"topic": topic, "payload": payload, "ts": ...})
Event(topic, payload) == [topic |-> topic, payload |-> payload]

\* self._subs.get(topic, [])
SubsOf(topic) == subs[topic]

\* Invoke with callbacks that keep the first sample they are given.
InvokeKeepFirst(cb, ev, st) ==
  LET seen == [st EXCEPT !.invoked = Append(@, [cb |-> cb, ev |-> ev])]
  IN CASE cb = "on_telemetry" ->
            IF st.tel = NoneV
            THEN [seen EXCEPT !.tel = TelemetrySample(ev.payload)] ELSE seen
       [] cb = "on_weather" ->
            IF st.wx = NoneV
            THEN [seen EXCEPT !.wx = WeatherSample(ev.payload)] ELSE seen
       [] OTHER -> [seen EXCEPT !.recv[cb] = @ + 1]

\* One call cb(event), on the state the callbacks can change.  on_telemetry
\* and on_weather build the dataclass from the payload, which raises a
\* TypeError unless the payload's keys are the fields of the class.
Invoke(cb, ev, st) ==
  LET seen == [st EXCEPT !.invoked = Append(@, [cb |-> cb, ev |-> ev])]
  IN CASE cb = "on_telemetry" ->
            IF DOMAIN ev.payload = TelemetryFields
            THEN [seen EXCEPT !.tel = TelemetrySample(ev.payload)]
            ELSE [seen EXCEPT !.raised = TRUE]
       [] cb = "on_weather" ->
            IF DOMAIN ev.payload = WeatherFields
            THEN [seen EXCEPT !.wx = WeatherSample(ev.payload)]
            ELSE [seen EXCEPT !.raised = TRUE]
       [] cb \in FaultyCallbacks -> [seen EXCEPT !.raised = TRUE]
       [] OTHER -> [seen EXCEPT !.recv[cb] = @ + 1]

\* A publish that calls every callback and swallows what they raise.
RECURSIVE DispatchIsolated(_, _, _)
DispatchIsolated(cbs, ev, st) ==
  IF cbs = <<>> THEN st
  ELSE DispatchIsolated(Tail(cbs), ev,
                        [Invoke(Head(cbs), ev, st) EXCEPT !.raised = FALSE])

\* for cb in cbs: cb(event); an exception leaves the loop.
RECURSIVE Dispatch(_, _, _)
Dispatch(cbs, ev, st) ==
  IF cbs = <<>> \/ st.raised THEN st
  ELSE Dispatch(Tail(cbs), ev, Invoke(Head(cbs), ev, st))

\* EventBus.publish(topic, payload), as the state it leaves.
BusPublish(topic, payload) ==
  Dispatch(SubsOf(topic), Event(topic, payload),
           [tel |-> latest_tel, wx |-> latest_wx, recv |-> recv,
            invoked |-> <<>>, raised |-> FALSE])

\* A publish call made by `by`, with the history it leaves.
Publish(by, topic, payload) ==
  LET r == BusPublish(topic, payload)
  IN /\ latest_tel' = r.tel
     /\ latest_wx' = r.wx
     /\ recv' = r.recv
     /\ pubs' = [pubs EXCEPT ![topic] = @ + 1]
     /\ lastPub' = [lastPub EXCEPT ![topic] = payload]
     /\ lastDispatch' = [by |-> by, ev |-> Event(topic, payload),
                         cbs |-> regs[topic], invoked |-> r.invoked,
                         raised |-> r.raised]
     /\ inRun' = IF by \in Producers THEN [inRun EXCEPT ![by] = TRUE]
                 ELSE inRun

\* Subscribe putting the new callback first.
SubscribeFront(topic, cb) ==
  /\ subs' = [subs EXCEPT ![topic] = <<cb>> \o @]
  /\ UNCHANGED <<latest_tel, latest_wx, recv>>

\* Subscribe on a bus that keeps the latest event of a topic and delivers it
\* to a new subscriber.
SubscribeReplay(topic, cb) ==
  /\ subs' = [subs EXCEPT ![topic] = Append(@, cb)]
  /\ recv' = IF cb \in ExtCallbacks /\ lastPub[topic] # NoneV
             THEN [recv EXCEPT ![cb] = @ + 1] ELSE recv
  /\ UNCHANGED <<latest_tel, latest_wx>>

\* EventBus.subscribe(topic, callback): the callback is appended to the
\* topic's list and nothing is delivered to it.
Subscribe(topic, cb) ==
  /\ subs' = [subs EXCEPT ![topic] = Append(@, cb)]
  /\ UNCHANGED <<latest_tel, latest_wx, recv>>

\* ----------------------------------------------------------------- init
\* Init with the strategy agent holding a default weather sample instead
\* of None.
InitDefaultWeather ==
  /\ subs = [t \in Topics |->
               IF t = TEL THEN <<"on_telemetry">>
               ELSE IF t = WX THEN <<"on_weather">> ELSE <<>>]
  /\ started = FALSE
  /\ running = [a \in Agents |-> FALSE]
  /\ task = [a \in Agents |-> 0]
  /\ tasks = [a \in Agents |-> <<>>]
  /\ latest_tel = NoneV
  /\ latest_wx = WeatherSample(WeatherPayload(30))
  /\ gemini \in BOOLEAN
  /\ svc = NoneV
  /\ stream = [k \in Consumers |-> "open"]
  /\ queue = <<>>
  /\ call = [c \in Callers |-> "idle"]
  /\ pubs = [t \in Topics |-> 0]
  /\ lastPub = [t \in Topics |-> NoneV]
  /\ lastDispatch = NoDispatch
  /\ recv = [cb \in ExtCallbacks |-> 0]
  /\ inRun = [a \in Producers |-> FALSE]
  /\ regs = [t \in Topics |->
               IF t = TEL THEN <<"on_telemetry">>
               ELSE IF t = WX THEN <<"on_weather">> ELSE <<>>]
  /\ enq = <<>>
  /\ yielded = <<>>
  /\ skipped = FALSE

\* ADKOrchestrator.__init__: a fresh bus, the three agents, and the strategy
\* agent's two subscriptions.
Init ==
  /\ subs = [t \in Topics |->
               IF t = TEL THEN <<"on_telemetry">>
               ELSE IF t = WX THEN <<"on_weather">> ELSE <<>>]
  /\ started = FALSE
  /\ running = [a \in Agents |-> FALSE]
  /\ task = [a \in Agents |-> 0]
  /\ tasks = [a \in Agents |-> <<>>]
  /\ latest_tel = NoneV
  /\ latest_wx = NoneV
  /\ gemini \in BOOLEAN
  /\ svc = NoneV
  /\ stream = [k \in Consumers |-> "open"]
  /\ queue = <<>>
  /\ call = [c \in Callers |-> "idle"]
  /\ pubs = [t \in Topics |-> 0]
  /\ lastPub = [t \in Topics |-> NoneV]
  /\ lastDispatch = NoDispatch
  /\ recv = [cb \in ExtCallbacks |-> 0]
  /\ inRun = [a \in Producers |-> FALSE]
  /\ regs = [t \in Topics |->
               IF t = TEL THEN <<"on_telemetry">>
               ELSE IF t = WX THEN <<"on_weather">> ELSE <<>>]
  /\ enq = <<>>
  /\ yielded = <<>>
  /\ skipped = FALSE

\* ------------------------------------------------------------ lifecycle
\* A start() that does not test _started.
OrchStartAlways(c) ==
  /\ call[c] = "idle"
  /\ call' = [call EXCEPT ![c] = "start_gather"]
  /\ UNCHANGED <<busVars, started, running, task, tasks, gemini, svc, stream,
                 queue, enq, yielded, skipped>>

\* ADKOrchestrator.start(), to its await of gather: returns at once when
\* _started is set, else hands the three agents' start() to gather.
OrchStart(c) ==
  /\ call[c] = "idle"
  /\ IF started
     THEN UNCHANGED vars
     ELSE /\ call' = [call EXCEPT ![c] = "start_gather"]
          /\ UNCHANGED <<subs, started, running, task, tasks, latest_tel,
                         latest_wx, gemini, svc, stream, queue, pubs, lastPub,
                         lastDispatch, inRun, recv, regs, enq, yielded,
                         skipped>>

\* A start() whose new telemetry loop goes on from the lap last published.
AgentStartResume(a) ==
  Append(SelectSeq(tasks[a], LAMBDA t : ~Done(t)),
         IF a = "telemetry" /\ lastPub[TEL] # NoneV
         THEN [NewTask EXCEPT !.lap = lastPub[TEL].lap + 1] ELSE NewTask)

\* TelemetryAgent.start / WeatherAgent.start / StrategyAgent.start:
\* self._task = asyncio.create_task(self._run()), as the agent's tasks; the
\* tasks that are done and no longer referenced are dropped.
AgentStart(a) == Append(SelectSeq(tasks[a], LAMBDA t : ~Done(t)), NewTask)

\* The three start() coroutines of the gather in ADKOrchestrator.start.
GatherStart(c) ==
  /\ call[c] = "start_gather"
  /\ \A a \in Agents : Cardinality(Live(a)) < MaxTasks
  /\ running' = [a \in Agents |-> TRUE]
  /\ tasks' = [a \in Agents |-> AgentStart(a)]
  /\ task' = [a \in Agents |-> Len(tasks'[a])]
  /\ call' = [call EXCEPT ![c] = "start_done"]
  /\ inRun' = [a \in Producers |-> FALSE]
  /\ UNCHANGED <<subs, started, latest_tel, latest_wx, gemini, svc, stream,
                 queue, pubs, lastPub, lastDispatch, recv, regs, enq, yielded,
                 skipped>>

\* ADKOrchestrator.start(), after gather: self._started = True
OrchStartDone(c) ==
  /\ call[c] = "start_done"
  /\ started' = TRUE
  /\ call' = [call EXCEPT ![c] = "idle"]
  /\ UNCHANGED <<subs, running, task, tasks, latest_tel, latest_wx, gemini,
                 svc, stream, queue, pubs, lastPub, lastDispatch, inRun, recv,
                 regs, enq, yielded, skipped>>

\* ADKOrchestrator.stop(), to its await of gather.
OrchStop(c) ==
  /\ call[c] = "idle"
  /\ IF ~started
     THEN UNCHANGED vars
     ELSE /\ call' = [call EXCEPT ![c] = "stop_gather"]
          /\ UNCHANGED <<subs, started, running, task, tasks, latest_tel,
                         latest_wx, gemini, svc, stream, queue, pubs, lastPub,
                         lastDispatch, inRun, recv, regs, enq, yielded,
                         skipped>>

Ended(pc) == [pc |-> pc, lap |-> 0, tel |-> NoneV, wx |-> NoneV, rnd |-> 0]

\* A stop that clears the flag and leaves the task to notice it.
CancelNothing(t) == t

\* task.cancel() and the await of the task: a task that is not done gets a
\* CancelledError at the await it is suspended in (a BaseException, which
\* the except Exception around the LLM call lets through) and ends before
\* it runs any more of the loop.
Cancel(t) == IF Done(t) THEN t ELSE Ended("cancelled")

\* Agent.stop, as the agent's tasks: if self._task and not self._task.done()
AgentStop(a) ==
  IF task[a] = 0 THEN tasks[a]
  ELSE [tasks[a] EXCEPT ![task[a]] = Cancel(@)]

\* A stop that also forgets the samples the strategy agent retains.
GatherStopClear(c) ==
  /\ call[c] = "stop_gather"
  /\ running' = [a \in Agents |-> FALSE]
  /\ tasks' = [a \in Agents |-> AgentStop(a)]
  /\ call' = [call EXCEPT ![c] = "stop_done"]
  /\ latest_tel' = NoneV
  /\ latest_wx' = NoneV
  /\ UNCHANGED <<subs, started, task, gemini, svc, stream, queue, pubs,
                 lastPub, lastDispatch, inRun, recv, regs, enq, yielded,
                 skipped>>

\* The three stop() coroutines of the gather in ADKOrchestrator.stop, each
\* self._running = False and then Agent.stop.
GatherStop(c) ==
  /\ call[c] = "stop_gather"
  /\ running' = [a \in Agents |-> FALSE]
  /\ tasks' = [a \in Agents |-> AgentStop(a)]
  /\ call' = [call EXCEPT ![c] = "stop_done"]
  /\ UNCHANGED <<subs, started, task, latest_tel, latest_wx, gemini, svc,
                 stream, queue, pubs, lastPub, lastDispatch, inRun, recv,
                 regs, enq, yielded, skipped>>

\* ADKOrchestrator.stop(), after gather: self._started = False
OrchStopDone(c) ==
  /\ call[c] = "stop_done"
  /\ started' = FALSE
  /\ call' = [call EXCEPT ![c] = "idle"]
  /\ UNCHANGED <<subs, running, task, tasks, latest_tel, latest_wx, gemini,
                 svc, stream, queue, pubs, lastPub, lastDispatch, inRun, recv,
                 regs, enq, yielded, skipped>>

\* ------------------------------------------------------------ run loops
\* The task after a loop body that published: it sleeps, or it has ended
\* with the exception a callback raised.
AfterPublish(t, next) ==
  IF lastDispatch'.raised THEN Ended("failed") ELSE next

\* A telemetry loop that returns after its first body.
TelemetryRunOnce(i) ==
  /\ tasks["telemetry"][i].pc = "loop"
  /\ running["telemetry"]
  /\ pubs[TEL] < MaxPub
  /\ \E d \in TelemetryDraws :
       Publish("telemetry", TEL,
               TelemetryPayload(tasks["telemetry"][i].lap, d[1], d[2]))
  /\ tasks' = [tasks EXCEPT !["telemetry"][i] = Ended("done")]
  /\ UNCHANGED <<subs, regs, started, running, task, gemini, svc, stream,
                 queue, call, enq, yielded, skipped>>

\* TelemetryAgent._run: one test of the while condition and, when it holds,
\* one body, up to the sleep.
TelemetryRun(i) ==
  /\ tasks["telemetry"][i].pc = "loop"
  /\ IF running["telemetry"]
     THEN /\ pubs[TEL] < MaxPub
          /\ \E d \in TelemetryDraws :
               Publish("telemetry", TEL,
                       TelemetryPayload(tasks["telemetry"][i].lap, d[1], d[2]))
          /\ tasks' = [tasks EXCEPT !["telemetry"][i] =
                         AfterPublish(@, [@ EXCEPT !.lap = @ + 1])]
          /\ UNCHANGED <<subs, regs>>
     ELSE /\ tasks' = [tasks EXCEPT !["telemetry"][i] = Ended("done")]
          /\ UNCHANGED busVars
  /\ UNCHANGED <<started, running, task, gemini, svc, stream, queue, call,
                 enq, yielded, skipped>>

\* WeatherAgent._run: one test of the while condition and one body.
WeatherRun(i) ==
  /\ tasks["weather"][i].pc = "loop"
  /\ IF running["weather"]
     THEN /\ pubs[WX] < MaxPub
          /\ \E rain \in RainValues :
               Publish("weather", WX, WeatherPayload(rain))
          /\ tasks' = [tasks EXCEPT !["weather"][i] = AfterPublish(@, @)]
          /\ UNCHANGED <<subs, regs>>
     ELSE /\ tasks' = [tasks EXCEPT !["weather"][i] = Ended("done")]
          /\ UNCHANGED busVars
  /\ UNCHANGED <<started, running, task, gemini, svc, stream, queue, call,
                 enq, yielded, skipped>>

\* The values random.randint(1, 3) can return where _compute_insight calls
\* it; 0 where it is not called.
RandomDraws(tel, wx) ==
  IF \/ tel.f.tyre_wear_pct > WearPitThreshold
     \/ /\ wx.f.rain_prob > RainPitThreshold
        /\ tel.f.tyre_compound \in {"SOFT", "MEDIUM"}
  THEN PitLaps ELSE {0}

\* if self._latest_tel and self._latest_wx, negated: a sample is missing (an
\* object of either dataclass is truthy).
Incomplete == latest_tel = NoneV \/ latest_wx = NoneV

\* Emit without the publish.
EmitNoPublish(insight) ==
  /\ queue' = Append(queue, insight)
  /\ enq' = Append(enq, insight)
  /\ UNCHANGED <<latest_tel, latest_wx, recv, pubs, lastPub, lastDispatch,
                 inRun>>

\* Emit on a queue of maxsize 1: the put waits while the queue is full.
EmitBounded(insight) ==
  /\ Len(queue) < 1
  /\ queue' = Append(queue, insight)
  /\ enq' = Append(enq, insight)
  /\ Publish("strategy", SI, dataclass_to_dict(insight))

\* await self._queue.put(insight); self.bus.publish("strategy.insight", ...):
\* the queue is unbounded, so the put does not suspend and both run in one
\* step.
Emit(insight) ==
  /\ queue' = Append(queue, insight)
  /\ enq' = Append(enq, insight)
  /\ Publish("strategy", SI, dataclass_to_dict(insight))

\* StrategyAgent._run: one test of the while condition and, when it holds,
\* one body: skip when a sample is missing; else compute the insight and
\* either suspend in the LLM call or go on to put and publish.
StrategyRun(i) ==
  /\ tasks["strategy"][i].pc = "loop"
  /\ IF ~running["strategy"]
     THEN /\ tasks' = [tasks EXCEPT !["strategy"][i] = Ended("done")]
          /\ UNCHANGED <<busVars, queue, enq, skipped>>
     ELSE IF Incomplete
     THEN /\ skipped' = TRUE
          /\ UNCHANGED <<busVars, tasks, queue, enq>>
     ELSE /\ pubs[SI] < MaxPub
          /\ UNCHANGED skipped
          /\ \E rnd \in RandomDraws(latest_tel, latest_wx),
                suspends \in (IF gemini THEN BOOLEAN ELSE {FALSE}) :
               IF suspends
               THEN /\ tasks' = [tasks EXCEPT !["strategy"][i] =
                                   [pc |-> "llm", lap |-> 1, tel |-> latest_tel,
                                    wx |-> latest_wx, rnd |-> rnd]]
                    /\ UNCHANGED <<busVars, queue, enq>>
               ELSE /\ Emit(ComputeInsight(latest_tel, latest_wx, rnd))
                    /\ tasks' = [tasks EXCEPT !["strategy"][i] =
                                   AfterPublish(@, @)]
                    /\ UNCHANGED <<subs, regs>>
  /\ UNCHANGED <<started, running, task, gemini, svc, stream, call, yielded>>

\* A resumption that reads the retained samples again after the LLM call.
StrategyResumeLatest(i) ==
  /\ tasks["strategy"][i].pc = "llm"
  /\ LET t == tasks["strategy"][i]
     IN /\ Emit(ComputeInsight(latest_tel, latest_wx, t.rnd))
        /\ tasks' = [tasks EXCEPT !["strategy"][i] = AfterPublish(@, NewTask)]
  /\ UNCHANGED <<subs, regs, started, running, task, gemini, svc, stream,
                 call, yielded, skipped>>

\* StrategyAgent._run resumed after the LLM call: the insight of the samples
\* it was called with is returned, put and published.
StrategyResume(i) ==
  /\ tasks["strategy"][i].pc = "llm"
  /\ LET t == tasks["strategy"][i]
     IN /\ Emit(ComputeInsight(t.tel, t.wx, t.rnd))
        /\ tasks' = [tasks EXCEPT !["strategy"][i] = AfterPublish(@, NewTask)]
  /\ UNCHANGED <<subs, regs, started, running, task, gemini, svc, stream,
                 call, yielded, skipped>>

\* ------------------------------------------------------------- stream
\* Consume on a last-in, first-out queue.
ConsumeNewest(k) ==
  /\ stream[k] = "open"
  /\ queue # <<>>
  /\ yielded' = Append(yielded, dataclass_to_dict(queue[Len(queue)]))
  /\ queue' = SubSeq(queue, 1, Len(queue) - 1)
  /\ UNCHANGED <<busVars, lifeVars, gemini, svc, stream, enq, skipped>>

\* A stream that ends once the orchestrator is stopped and the queue is
\* drained.
ConsumeUntilStopped(k) ==
  /\ stream[k] = "open"
  /\ IF queue # <<>>
     THEN /\ yielded' = Append(yielded, dataclass_to_dict(Head(queue)))
          /\ queue' = Tail(queue)
          /\ UNCHANGED stream
     ELSE /\ ~started
          /\ stream' = [stream EXCEPT ![k] = "ended"]
          /\ UNCHANGED <<queue, yielded>>
  /\ UNCHANGED <<busVars, lifeVars, gemini, svc, enq, skipped>>

\* One item of ADKOrchestrator.insights_stream for consumer k: the get of
\* stream_insights returns the head of the queue, which is yielded as a dict.
Consume(k) ==
  /\ stream[k] = "open"
  /\ queue # <<>>
  /\ yielded' = Append(yielded, dataclass_to_dict(Head(queue)))
  /\ queue' = Tail(queue)
  /\ UNCHANGED <<busVars, lifeVars, gemini, svc, stream, enq, skipped>>

\* ------------------------------------------------------ other callers
\* The subscriptions made by callers other than the strategy agent.
ExtSubCount ==
  Cardinality({<<t, n>> \in Topics \X (1..(MaxExtSubs + 2)) :
                 n <= Len(subs[t]) /\ subs[t][n] \in ExtCallbacks})

\* bus.subscribe(topic, cb) by a caller holding the orchestrator's bus.
ExtSubscribe(topic, cb) ==
  /\ ExtSubCount < MaxExtSubs
  /\ Subscribe(topic, cb)
  /\ regs' = [regs EXCEPT ![topic] = Append(@, cb)]
  /\ UNCHANGED <<started, running, task, tasks, gemini, svc, stream, queue,
                 call, pubs, lastPub, lastDispatch, inRun, enq, yielded,
                 skipped>>

\* The payloads published on a topic: the samples' dicts and the insights'.
TelemetryPayloads == {TelemetryPayload(1, "SOFT", w) : w \in WearValues}
WeatherPayloads == {WeatherPayload(r) : r \in RainValues}
Payloads(topic) ==
  IF topic = TEL THEN TelemetryPayloads
  ELSE IF topic = WX THEN WeatherPayloads
  ELSE {dataclass_to_dict(ComputeInsight(TelemetrySample(p), WeatherSample(q), 1)) :
          p \in {TelemetryPayload(1, "SOFT", 300)}, q \in WeatherPayloads}

\* bus.publish(topic, payload) by a caller holding the orchestrator's bus.
ExtPublish(topic, payload) ==
  /\ pubs[TEL] + pubs[WX] + pubs[SI] < MaxExtPubs
  /\ Publish("ext", topic, payload)
  /\ UNCHANGED <<subs, regs, started, running, task, tasks, gemini, svc,
                 stream, queue, call, enq, yielded, skipped>>

\* ------------------------------------------------------- LLM wrapper
\* backend/services/gemini_service.py.  A Python string is the sequence of
\* its pieces, so that the empty string is <<>> (falsy), + is \o and a
\* prefix is a prefix of the sequence.
NotInitialized ==
  <<"Gemini client not initialized. Ensure google-generativeai is installed and GEMINI_API_KEY or GOOGLE_API_KEY is set.">>
ErrorPrefix == <<"Gemini API error: ">>
Newline == <<"\n">>

\* The outcome of a call or of an attribute read: a value, or an exception.
Return(v) == [kind |-> "return", v |-> v]
Raise(msg) == [kind |-> "raise", msg |-> msg]

\* What reading an attribute of a provider object can do: the object has
\* no such attribute, the property raises, or it gives a value.
Absent == [kind |-> "absent"]
Raises(msg) == [kind |-> "raises", msg |-> msg]
Value(v) == [kind |-> "value", v |-> v]

\* str(e) of the exceptions a provider call or property raises.
Messages == {<<>>, <<"quota exceeded">>}
\* response.text: no attribute, a property that raises (the SDK's quick
\* accessor raises ValueError when the response has no single valid part),
\* the empty string or a text.
TextReads == {Absent, Raises(<<"no valid part">>), Value(<<>>), Value(<<"T">>)}
\* cand.content.parts[0].text of one candidate: fails, or a string.
PartReads == {Raises(<<>>), Value(<<>>), Value(<<"a">>), Value(<<"b">>)}
\* response.candidates: no attribute, or a list of candidates.
CandidateLists ==
  UNION {[1..n -> PartReads] : n \in 0..MaxCandidates}
CandidateReads == {Absent} \cup {Value(c) : c \in CandidateLists}
\* self.model.generate_content(prompt): raises, or returns a response.
Outcomes ==
  {Raise(m) : m \in Messages}
    \cup {[kind |-> "response", text |-> t, candidates |-> c] :
            t \in TextReads, c \in CandidateReads}

\* GeminiService.__init__: _client_ready is set only when the SDK was
\* imported, an API key was found and configure / GenerativeModel did not
\* raise.
GeminiService(sdk, key, configureRaises) ==
  [cls |-> "GeminiService", genai |-> sdk,
   client_ready |-> sdk /\ key /\ ~configureRaises, last |-> NoneV]

\* for cand in candidates: try: parts.append(cand...text) except: continue
RECURSIVE Parts(_)
Parts(cands) ==
  IF cands = <<>> THEN <<>>
  ELSE (IF Head(cands).kind = "value" THEN <<Head(cands).v>> ELSE <<>>)
         \o Parts(Tail(cands))

\* "\n".join(strs)
RECURSIVE Join(_)
Join(strs) ==
  IF strs = <<>> THEN <<>>
  ELSE IF Len(strs) = 1 THEN strs[1]
  ELSE strs[1] \o Newline \o Join(Tail(strs))

\* The body of the try block of _generate_text on the provider's outcome o.
\* hasattr(response, "text") is False only on AttributeError; another
\* exception of the property leaves the try block.
Normalize(o) ==
  IF o.kind = "raise" THEN Raise(o.msg)
  ELSE IF o.text.kind = "raises" THEN Raise(o.text.msg)
  ELSE IF o.text.kind = "value" /\ o.text.v # <<>> THEN Return(o.text.v)
  ELSE IF o.candidates.kind = "value" /\ o.candidates.v # <<>>
       THEN Return(Join(SelectSeq(Parts(o.candidates.v),
                                  LAMBDA p : p # <<>>)))
  ELSE Return(<<>>)

\* except Exception as e: return f"Gemini API error: {e}"
Catch(r) == IF r.kind = "raise" THEN Return(ErrorPrefix \o r.msg) ELSE r

\* GeminiService._generate_text(prompt) on service s when the provider
\* would answer with o: the result, and whether the provider was called.
GenerateText(s, o) ==
  IF ~s.genai \/ ~s.client_ready
  THEN [called |-> FALSE, out |-> Return(NotInitialized)]
  ELSE [called |-> TRUE, out |-> Catch(Normalize(o))]

\* analyze_tire_strategy, predict_race_outcome, explain_strategy_decision
\* (each composes a prompt and returns self._generate_text(prompt)) and
\* _generate_text itself.
Methods == {"analyze_tire_strategy", "predict_race_outcome",
            "explain_strategy_decision", "_generate_text"}

\* One call of a method of the service.
Call(method, o) ==
  /\ svc # NoneV
  /\ svc' = [svc EXCEPT !.last =
               [method |-> method, outcome |-> o] @@ GenerateText(svc, o)]
  /\ UNCHANGED <<busVars, lifeVars, gemini, stream, queue, enq, yielded,
                 skipped>>

\* ----------------------------------------------------------------- spec
\* The program as ADKOrchestrator wires it, with one caller of start() and
\* stop() and the consumers of the stream.
Next ==
  \/ OrchStart("c1")
  \/ GatherStart("c1")
  \/ OrchStartDone("c1")
  \/ OrchStop("c1")
  \/ GatherStop("c1")
  \/ OrchStopDone("c1")
  \/ \E i \in DOMAIN tasks["telemetry"] : TelemetryRun(i)
  \/ \E i \in DOMAIN tasks["weather"] : WeatherRun(i)
  \/ \E i \in DOMAIN tasks["strategy"] : StrategyRun(i)
  \/ \E i \in DOMAIN tasks["strategy"] : StrategyResume(i)
  \/ \E k \in Consumers : Consume(k)

Spec == Init /\ [][Next]_vars

\* The orchestrator started and never stopped.  The event loop runs every
\* task that is ready (its ready queue is first in, first out), every sleep
\* ends, and the LLM call returns or raises: weak fairness on each loop.
NextLive ==
  \/ OrchStart("c1")
  \/ GatherStart("c1")
  \/ OrchStartDone("c1")
  \/ \E i \in DOMAIN tasks["telemetry"] : TelemetryRun(i)
  \/ \E i \in DOMAIN tasks["weather"] : WeatherRun(i)
  \/ \E i \in DOMAIN tasks["strategy"] : StrategyRun(i)
  \/ \E i \in DOMAIN tasks["strategy"] : StrategyResume(i)
  \/ \E k \in Consumers : Consume(k)

Fairness ==
  /\ WF_vars(GatherStart("c1"))
  /\ WF_vars(OrchStartDone("c1"))
  /\ WF_vars(\E i \in DOMAIN tasks["telemetry"] : TelemetryRun(i))
  /\ WF_vars(\E i \in DOMAIN tasks["weather"] : WeatherRun(i))
  /\ WF_vars(\E i \in DOMAIN tasks["strategy"] : StrategyRun(i))
  /\ WF_vars(\E i \in DOMAIN tasks["strategy"] : StrategyResume(i))

LiveSpec == Init /\ [][NextLive]_vars /\ Fairness

\* The strategy agent is built with use_gemini = False.
InitBus == Init /\ ~gemini

\* Two callers whose start() and stop() calls overlap: each call is suspended
\* at its await of gather, after it has tested _started and before it sets
\* it, and the other caller's call runs meanwhile.
NextRace ==
  \/ \E c \in Callers : OrchStart(c)
  \/ \E c \in Callers : GatherStart(c)
  \/ \E c \in Callers : OrchStartDone(c)
  \/ \E c \in Callers : OrchStop(c)
  \/ \E c \in Callers : GatherStop(c)
  \/ \E c \in Callers : OrchStopDone(c)
  \/ \E i \in DOMAIN tasks["telemetry"] : TelemetryRun(i)
  \/ \E i \in DOMAIN tasks["weather"] : WeatherRun(i)
  \/ \E i \in DOMAIN tasks["strategy"] : StrategyRun(i)

SpecRace == InitBus /\ [][NextRace]_vars

\* What other callers have subscribed to a topic after the orchestrator was
\* constructed: nothing, or a callback that raises and one that does not,
\* in either order.
ExtraSubs == {<<>>, <<"faulty", "ext1">>, <<"ext1", "faulty">>}

\* The orchestrator constructed without LLM, and then the subscribe calls of
\* the other callers.
InitFault ==
  /\ \E extra \in [Topics -> ExtraSubs] :
       subs = [t \in Topics |->
                 (IF t = TEL THEN <<"on_telemetry">>
                  ELSE IF t = WX THEN <<"on_weather">> ELSE <<>>) \o extra[t]]
  /\ regs = subs
  /\ started = FALSE
  /\ running = [a \in Agents |-> FALSE]
  /\ task = [a \in Agents |-> 0]
  /\ tasks = [a \in Agents |-> <<>>]
  /\ latest_tel = NoneV
  /\ latest_wx = NoneV
  /\ gemini = FALSE
  /\ svc = NoneV
  /\ stream = [k \in Consumers |-> "open"]
  /\ queue = <<>>
  /\ call = [c \in Callers |-> "idle"]
  /\ pubs = [t \in Topics |-> 0]
  /\ lastPub = [t \in Topics |-> NoneV]
  /\ lastDispatch = NoDispatch
  /\ recv = [cb \in ExtCallbacks |-> 0]
  /\ inRun = [a \in Producers |-> FALSE]
  /\ enq = <<>>
  /\ yielded = <<>>
  /\ skipped = FALSE

\* The started orchestrator with other callers' callbacks on its bus, one
\* of which raises.
NextFault ==
  \/ OrchStart("c1")
  \/ GatherStart("c1")
  \/ OrchStartDone("c1")
  \/ \E i \in DOMAIN tasks["telemetry"] : TelemetryRun(i)
  \/ \E i \in DOMAIN tasks["weather"] : WeatherRun(i)
  \/ \E i \in DOMAIN tasks["strategy"] : StrategyRun(i)

SpecFault == InitFault /\ [][NextFault]_vars

\* The bus and the strategy agent's two callbacks, with other callers
\* subscribing and publishing.
NextBus ==
  \/ \E t \in Topics, cb \in ExtCallbacks : ExtSubscribe(t, cb)
  \/ \E t \in Topics : \E p \in Payloads(t) : ExtPublish(t, p)

SpecBus == InitBus /\ [][NextBus]_vars

\* The strategy agent's cycles on every pair of retained samples: the
\* orchestrator is started and each producer has published one sample.
WearGrid == {100, 350, 351}
RainGrid == {30, 45, 46, 50, 51}

InitInsight ==
  \E c \in Compounds, w \in WearGrid, r \in RainGrid :
    /\ subs = [t \in Topics |->
                 IF t = TEL THEN <<"on_telemetry">>
                 ELSE IF t = WX THEN <<"on_weather">> ELSE <<>>]
    /\ regs = subs
    /\ started = TRUE
    /\ running = [a \in Agents |-> TRUE]
    /\ task = [a \in Agents |-> 1]
    /\ tasks = [a \in Agents |->
                  IF a = "telemetry" THEN <<[NewTask EXCEPT !.lap = 2]>>
                  ELSE <<NewTask>>]
    /\ latest_tel = TelemetrySample(TelemetryPayload(1, c, w))
    /\ latest_wx = WeatherSample(WeatherPayload(r))
    /\ gemini \in BOOLEAN
    /\ svc = NoneV
    /\ stream = [k \in Consumers |-> "open"]
    /\ queue = <<>>
    /\ call = [k \in Callers |-> "idle"]
    /\ pubs = [t \in Topics |-> IF t = SI THEN 0 ELSE 1]
    /\ lastPub = [t \in Topics |->
                    IF t = TEL THEN TelemetryPayload(1, c, w)
                    ELSE IF t = WX THEN WeatherPayload(r) ELSE NoneV]
    /\ lastDispatch =
         [by |-> "weather", ev |-> Event(WX, WeatherPayload(r)),
          cbs |-> <<"on_weather">>,
          invoked |-> <<[cb |-> "on_weather",
                         ev |-> Event(WX, WeatherPayload(r))]>>,
          raised |-> FALSE]
    /\ recv = [cb \in ExtCallbacks |-> 0]
    /\ inRun = [a \in Producers |-> TRUE]
    /\ enq = <<>>
    /\ yielded = <<>>
    /\ skipped = FALSE

NextInsight ==
  \/ \E i \in DOMAIN tasks["strategy"] : StrategyRun(i)
  \/ \E i \in DOMAIN tasks["strategy"] : StrategyResume(i)

SpecInsight == InitInsight /\ [][NextInsight]_vars

\* The LLM wrapper alone: a service constructed in every way __init__ can
\* leave it, and calls of its methods on every provider outcome.
InitGemini ==
  /\ \E sdk, key, configureRaises \in BOOLEAN :
       svc = GeminiService(sdk, key, configureRaises)
  /\ subs = [t \in Topics |-> <<>>]
  /\ regs = [t \in Topics |-> <<>>]
  /\ started = FALSE
  /\ running = [a \in Agents |-> FALSE]
  /\ task = [a \in Agents |-> 0]
  /\ tasks = [a \in Agents |-> <<>>]
  /\ latest_tel = NoneV
  /\ latest_wx = NoneV
  /\ gemini = FALSE
  /\ stream = [k \in Consumers |-> "open"]
  /\ queue = <<>>
  /\ call = [c \in Callers |-> "idle"]
  /\ pubs = [t \in Topics |-> 0]
  /\ lastPub = [t \in Topics |-> NoneV]
  /\ lastDispatch = NoDispatch
  /\ recv = [cb \in ExtCallbacks |-> 0]
  /\ inRun = [a \in Producers |-> FALSE]
  /\ enq = <<>>
  /\ yielded = <<>>
  /\ skipped = FALSE

NextGemini == \E m \in Methods, o \in Outcomes : Call(m, o)

SpecGemini == InitGemini /\ [][NextGemini]_vars

\* ---------------------------------------------------------------- claims
\* C1: a step puts an insight on the queue or publishes on
\* 'strategy.insight' only when the strategy agent holds a telemetry and a
\* weather sample, each received from at least one publish on its topic; a
\* cycle that skips leaves the queue and the publish counts as they were.
C1_SkipIfIncomplete ==
  [][/\ (enq' # enq \/ pubs'[SI] # pubs[SI]) =>
          /\ ~Incomplete
          /\ pubs[TEL] >= 1
          /\ pubs[WX] >= 1
     /\ Incomplete => (queue' = queue \/ queue' = Tail(queue))
     /\ skipped' # skipped => (queue' = queue /\ enq' = enq /\ pubs' = pubs)]_vars

\* A cycle has skipped and, both samples received, a later one has put and
\* published an insight.
C1_Witness ==
  /\ skipped
  /\ enq # <<>>
  /\ pubs[SI] >= 1

\* C2: the retained telemetry sample is the sample of the payload of the
\* latest publish on 'telemetry.sample' (None before the first), the same
\* for weather, and a retained sample changes only in a step that publishes
\* on its own topic.
C2_LatestValueRetention ==
  /\ [](/\ latest_tel = IF lastPub[TEL] = NoneV THEN NoneV
                        ELSE TelemetrySample(lastPub[TEL])
        /\ latest_wx = IF lastPub[WX] = NoneV THEN NoneV
                       ELSE WeatherSample(lastPub[WX]))
  /\ [][/\ pubs'[TEL] = pubs[TEL] => latest_tel' = latest_tel
        /\ pubs'[WX] = pubs[WX] => latest_wx' = latest_wx]_vars

\* A second telemetry publish has replaced the sample of the first, with a
\* weather sample retained.
C2_Witness ==
  /\ pubs[TEL] = 2
  /\ latest_tel # NoneV
  /\ latest_tel.f.lap = 2
  /\ latest_wx # NoneV

\* C3: in every state the number of insights ever put on the queue equals
\* the number of publishes on 'strategy.insight', also after stop() has
\* cancelled the strategy agent's task, and a step puts at most one insight.
C3_EnqueuedEqualsPublished ==
  /\ [](Len(enq) = pubs[SI])
  /\ [][Len(enq') <= Len(enq) + 1]_vars

\* stop() has cancelled the strategy task after it emitted an insight.
C3_Witness ==
  /\ Len(enq) >= 1
  /\ call["c1"] = "stop_done"
  /\ tasks["strategy"][task["strategy"]].pc = "cancelled"

\* C4: the insight is a deterministic function of the retained samples: the
\* cycles of a run in which the retained samples never change (no producer
\* publishes) all put equal insights on the queue.
C4_Deterministic ==
  \A i, j \in DOMAIN enq : enq[i] = enq[j]

\* The number of registrations of cb in a topic's list.
Count(cb, seq) == Cardinality({i \in DOMAIN seq : seq[i] = cb})

\* C5: when a publish call has returned, the callbacks it invoked are the
\* callbacks registered for its topic when it was called, each once per
\* registration, in the order of the subscribe calls, each with the event of
\* that topic and payload; no other callback was invoked.
C5_SynchronousDispatch ==
  (lastDispatch.by # "none" /\ ~lastDispatch.raised) =>
    /\ lastDispatch.ev = Event(lastDispatch.ev.topic,
                               lastPub[lastDispatch.ev.topic])
    /\ lastDispatch.invoked =
         [i \in DOMAIN lastDispatch.cbs |->
            [cb |-> lastDispatch.cbs[i], ev |-> lastDispatch.ev]]

\* A publish has gone to two or more callbacks of its topic while an
\* external callback subscribed to another topic only was left out.
C5_Witness ==
  /\ lastDispatch.by = "ext"
  /\ Len(lastDispatch.cbs) >= 2
  /\ Len(lastDispatch.invoked) >= 2
  /\ \E cb \in ExtCallbacks :
       /\ Count(cb, subs[lastDispatch.ev.topic]) = 0
       /\ \E t \in Topics : Count(cb, subs[t]) >= 1

\* C6: the bus keeps no event: a callback is called only in the step of a
\* publish on a topic it is then registered for, once per registration, with
\* that publish's event (a subscribe step delivers nothing, and nothing is
\* delivered again later); a publish on a topic without subscribers changes
\* no bus or agent state.
C6_NoRetention ==
  [][/\ \A cb \in ExtCallbacks :
          recv'[cb] = recv[cb] +
            (IF pubs' # pubs
             THEN Count(cb, subs[lastDispatch'.ev.topic]) ELSE 0)
     /\ pubs' # pubs =>
          /\ \A i \in DOMAIN lastDispatch'.invoked :
               lastDispatch'.invoked[i].ev =
                 Event(lastDispatch'.ev.topic,
                       lastPub'[lastDispatch'.ev.topic])
          /\ subs[lastDispatch'.ev.topic] = <<>> =>
               /\ lastDispatch'.invoked = <<>>
               /\ UNCHANGED <<subs, latest_tel, latest_wx, recv, started,
                              running, task, tasks, queue, call>>]_vars

\* A callback subscribed to a topic after a publish on it and was never
\* called, and 'strategy.insight' was published on without subscribers.
C6_Witness ==
  /\ \E cb \in ExtCallbacks, t \in Topics :
       /\ pubs[t] >= 1
       /\ Count(cb, subs[t]) >= 1
       /\ recv[cb] = 0
  /\ pubs[SI] >= 1
  /\ subs[SI] = <<>>

\* C7: while start() has returned and stop() has not been called, each agent
\* has exactly one run loop that is not done, the one its _task refers to;
\* when stop() has returned (and before any start()), no agent has a run
\* loop that is not done, and no step from such a state publishes an event
\* or puts an insight on the queue.
C7_StartStopTogether ==
  /\ [](/\ (started /\ call["c1"] = "idle") =>
             \A a \in Agents : task[a] # 0 /\ Live(a) = {task[a]}
        /\ (~started /\ call["c1"] = "idle") =>
             \A a \in Agents : Live(a) = {})
  /\ [][(~started /\ call["c1"] = "idle") =>
          (pubs' = pubs /\ enq' = enq /\ lastDispatch' = lastDispatch)]_vars

\* stop() has returned after a run in which the agents published and an
\* insight was put on the queue: the three tasks are cancelled.
C7_Witness ==
  /\ ~started
  /\ call["c1"] = "idle"
  /\ pubs[TEL] >= 1
  /\ pubs[WX] >= 1
  /\ Len(enq) >= 1
  /\ \A a \in Agents : task[a] # 0 /\ tasks[a][task[a]].pc = "cancelled"

\* C8: the items the stream has yielded, in order, are the dict forms of the
\* first insights put on the queue, in the order they were put, whichever
\* consumer took each; the queue holds the rest: no item is yielded that was
\* not put, out of order, or twice.
C8_StreamIsFifo ==
  /\ Len(yielded) <= Len(enq)
  /\ yielded = [i \in 1..Len(yielded) |-> dataclass_to_dict(enq[i])]
  /\ queue = SubSeq(enq, Len(yielded) + 1, Len(enq))

\* Two different insights have been yielded, in the order they were put.
C8_Witness ==
  /\ Len(yielded) = 2
  /\ yielded[1] # yielded[2]
  /\ yielded[1] = dataclass_to_dict(enq[1])
  /\ queue = <<>>

\* C9: the queue length is the number of insights put minus the number
\* yielded, and a strategy cycle that holds both samples (or is resuming from
\* the LLM call) can always take its step, whatever the queue holds.
C9_NoBackPressure ==
  /\ Len(queue) = Len(enq) - Len(yielded)
  /\ \A i \in DOMAIN tasks["strategy"] :
       /\ ( /\ tasks["strategy"][i].pc = "loop"
            /\ running["strategy"]
            /\ ~Incomplete
            /\ pubs[SI] < MaxPub ) => ENABLED StrategyRun(i)
       /\ ( /\ tasks["strategy"][i].pc = "llm"
            /\ pubs[SI] < MaxPub ) => ENABLED StrategyResume(i)

\* Nothing has consumed the stream and the queue holds every insight put so
\* far, with the strategy loop about to put another.
C9_Witness ==
  /\ yielded = <<>>
  /\ Len(queue) >= 1
  /\ pubs[SI] < MaxPub
  /\ running["strategy"]
  /\ tasks["strategy"][task["strategy"]].pc = "loop"

\* C10: with the orchestrator started and never stopped, under fair
\* scheduling each publish count below the bound is followed by a greater
\* one on 'telemetry.sample' and on 'weather.sample', each number of insights
\* put on the queue below the bound is followed by a greater one (from none,
\* a first insight), and every publish by the telemetry agent is on
\* 'telemetry.sample', by the weather agent on 'weather.sample' and by the
\* strategy agent on 'strategy.insight'.
C10_PeriodicLiveness ==
  /\ [](/\ lastDispatch.by = "telemetry" => lastDispatch.ev.topic = TEL
        /\ lastDispatch.by = "weather" => lastDispatch.ev.topic = WX
        /\ lastDispatch.by = "strategy" => lastDispatch.ev.topic = SI)
  /\ \A n \in 0..(MaxPub - 1) :
       /\ (started /\ pubs[TEL] = n) ~> (pubs[TEL] > n)
       /\ (started /\ pubs[WX] = n) ~> (pubs[WX] > n)
       /\ (started /\ Len(enq) = n) ~> (Len(enq) > n)

\* The started orchestrator's three loops have each gone round more than
\* once: the telemetry agent is past lap 1 and every count is at the bound.
C10_Witness ==
  /\ started
  /\ pubs[TEL] = MaxPub
  /\ pubs[WX] = MaxPub
  /\ Len(enq) = MaxPub
  /\ lastDispatch.by = "strategy"
  /\ tasks["telemetry"][task["telemetry"]].lap = MaxPub + 1

\* A prefix of a string.
IsPrefix(p, str) == Len(p) <= Len(str) /\ SubSeq(str, 1, Len(p)) = p

\* C11: every call of the wrapper returns a string and never raises: the
\* fixed 'not initialized' message, without calling the provider, when the
\* SDK is missing or the client is not ready; a string beginning
\* 'Gemini API error: ' when the provider call raises; the response text
\* when it is non-empty; otherwise the newline-join of the non-empty
\* first-part texts of the candidates, skipping the candidates whose
\* extraction fails; otherwise the empty string.
C11_AlwaysPlainText ==
  (svc # NoneV /\ svc.last # NoneV) =>
    LET l == svc.last
        o == l.outcome
        ready == svc.genai /\ svc.client_ready
        hasText == o.kind = "response" /\ o.text.kind = "value"
                     /\ o.text.v # <<>>
        texts == IF o.kind = "response" /\ o.candidates.kind = "value"
                 THEN SelectSeq(o.candidates.v,
                                LAMBDA c : c.kind = "value" /\ c.v # <<>>)
                 ELSE <<>>
    IN /\ l.out.kind = "return"
       /\ ~ready => (l.out.v = NotInitialized /\ ~l.called)
       /\ (ready /\ o.kind = "raise") => IsPrefix(ErrorPrefix, l.out.v)
       /\ (ready /\ hasText) => l.out.v = o.text.v
       /\ (ready /\ o.kind = "response" /\ ~hasText) =>
            l.out.v = Join([i \in 1..Len(texts) |-> texts[i].v])

\* C12: with one caller at a time, no step taken while start() has returned
\* and stop() has not been called creates an agent task, replaces an agent's
\* _task or enters the gather of start(): a second start() returns at once
\* and changes nothing.  No step taken while the orchestrator is not started
\* and no call is in progress cancels a task or enters the gather of stop(),
\* and none changes the flags, the tasks, the bus or the retained samples.
C12_SequentialIdempotence ==
  [][/\ (started /\ call["c1"] = "idle") =>
          /\ call'["c1"] \in {"idle", "stop_gather"}
          /\ started' /\ task' = task /\ running' = running
          /\ \A a \in Agents : Len(tasks'[a]) = Len(tasks[a])
     /\ (~started /\ call["c1"] = "idle") =>
          /\ call'["c1"] \in {"idle", "start_gather"}
          /\ ~started' /\ task' = task /\ running' = running
          /\ tasks' = tasks
          /\ UNCHANGED busVars]_vars

\* start() has returned, the three loops run and have published, and a
\* second start() called now is the step that leaves every variable as it is.
C12_Witness ==
  /\ started
  /\ call["c1"] = "idle"
  /\ \A a \in Agents : Live(a) = {task[a]}
  /\ pubs[TEL] >= 1
  /\ Len(enq) >= 1
  /\ ENABLED (OrchStart("c1") /\ UNCHANGED vars)

\* C13: whatever the interleaving of overlapping start() and stop() calls,
\* each agent has at most one run-loop task that is not done, and every such
\* task is the one the agent's _task refers to.
C13_OneLiveTask ==
  \A a \in Agents : Cardinality(Live(a)) <= 1 /\ Live(a) \subseteq {task[a]}

\* C14: every insight computed from a telemetry sample (wear in tenths of a
\* percent, compound) and a weather sample (rain in hundredths) recommends a
\* pit stop exactly when wear > 35 or (rain > 0.45 and the compound is SOFT
\* or MEDIUM); recommended_pit_in_laps is None exactly when target_compound
\* is None; when recommended, the laps are in 1..3 and the target is INTERS
\* if rain > 0.5, else HARD if the compound is not HARD, else MEDIUM, never
\* the current compound; risk_rain is the sample's rain_prob.
C14_DecisionRule ==
  \A i \in DOMAIN enq :
    LET wear == latest_tel.f.tyre_wear_pct
        compound == latest_tel.f.tyre_compound
        rain == latest_wx.f.rain_prob
        ins == enq[i].f
        pit == wear > 350 \/ (rain > 45 /\ compound \in {"SOFT", "MEDIUM"})
    IN /\ pit <=> ins.recommended_pit_in_laps # NoneV
       /\ ins.recommended_pit_in_laps = NoneV <=> ins.target_compound = NoneV
       /\ pit =>
            /\ ins.recommended_pit_in_laps \in {IntV(n) : n \in 1..3}
            /\ ins.target_compound =
                 StrV(IF rain > 50 THEN "INTERS"
                      ELSE IF compound # "HARD" THEN "HARD" ELSE "MEDIUM")
            /\ ins.target_compound # StrV(compound)
       /\ ins.risk_rain = rain

\* An insight for a car on HARD tyres worn past the threshold in the dry:
\* it recommends MEDIUM.
C14_Witness ==
  /\ Len(enq) >= 1
  /\ latest_tel.f.tyre_compound = "HARD"
  /\ latest_tel.f.tyre_wear_pct = 351
  /\ latest_wx.f.rain_prob = 50
  /\ enq[1].f.target_compound = StrV("MEDIUM")
  /\ enq[1].f.recommended_pit_in_laps = IntV(3)

\* C15: the samples a strategy cycle holds while it is suspended in the LLM
\* call are the pair that was retained when the cycle began, they stay the
\* same for as long as it is suspended, whatever events are delivered
\* meanwhile, and the insight it puts on the queue when it resumes is the one
\* of that pair: its risk_rain, pace_delta_s and pit decision are those of
\* the held samples, not of the samples retained at the time of the put.
C15_ConsistentSnapshot ==
  [][\A i \in DOMAIN tasks["strategy"] :
       LET t == tasks["strategy"][i]
           u == tasks'["strategy"][i]
       IN /\ (i \in DOMAIN tasks'["strategy"] /\ t.pc = "loop" /\ u.pc = "llm")
               => (u.tel = latest_tel /\ u.wx = latest_wx)
          /\ (i \in DOMAIN tasks'["strategy"] /\ t.pc = "llm" /\ u.pc = "llm")
               => (u.tel = t.tel /\ u.wx = t.wx)
          /\ (t.pc = "llm" /\ enq' # enq) =>
               LET ins == enq'[Len(enq')].f
                   wear == t.tel.f.tyre_wear_pct
                   rain == t.wx.f.rain_prob
               IN /\ Len(enq') = Len(enq) + 1
                  /\ ins.risk_rain = rain
                  /\ ins.pace_delta_s = Max(0, (wear - 100) * 5) + rain * 2
                  /\ (ins.target_compound = StrV("INTERS")) <=> (rain > 50)
                  /\ latest_tel' = latest_tel
                  /\ latest_wx' = latest_wx]_vars

\* The strategy agent has just put and published an insight whose risk_rain
\* is not that of the weather sample now retained: a weather event was
\* delivered while the cycle was suspended.
C15_Witness ==
  /\ gemini
  /\ Len(enq) >= 1
  /\ lastDispatch.by = "strategy"
  /\ enq[Len(enq)].f.risk_rain # latest_wx.f.rain_prob
  /\ latest_tel.f.lap = 2

\* C16: no consumer's stream ever ends, and at every moment, started or
\* stopped, a consumer can take an item exactly when the queue holds one:
\* after stop() it still receives what is on the queue, then it waits, and
\* it receives again once a new run has put an insight.
C16_StreamNeverEnds ==
  \A k \in Consumers :
    /\ stream[k] = "open"
    /\ ENABLED Consume(k) <=> queue # <<>>

\* stop() has returned, every insight put has been yielded and the queue is
\* empty: the consumers wait, their streams open.
C16_Witness ==
  /\ ~started
  /\ call["c1"] = "idle"
  /\ \A a \in Agents : Live(a) = {}
  /\ Len(enq) >= 1
  /\ Len(yielded) = Len(enq)
  /\ queue = <<>>
  /\ \A k \in Consumers : stream[k] = "open" /\ ~ENABLED Consume(k)

C18_LapNumbering ==
  [][pubs'[TEL] # pubs[TEL] =>
       /\ lastDispatch'.by = "telemetry"
       /\ lastPub'[TEL].lap =
            IF inRun["telemetry"] THEN lastPub[TEL].lap + 1 ELSE 1]_vars

\* The second sample ever published has lap 1: the agent was stopped after
\* its first sample and started again.
C18_Witness ==
  /\ pubs[TEL] = 2
  /\ inRun["telemetry"]
  /\ lastPub[TEL].lap = 1
  /\ latest_tel.f.lap = 1

\* The topic an agent publishes on.
TopicOf(a) == IF a = "telemetry" THEN TEL ELSE IF a = "weather" THEN WX ELSE SI

\* C19: a publish raises exactly when a callback registered for its topic
\* raises; a publish during which a callback raises has called the topic's
\* callbacks up to and including the first one that raises and none after
\* it; the agent whose loop made that publish ends with the exception in
\* that step, the other agents' tasks are as they were, and a loop that has
\* ended so publishes nothing more, while a loop that has not ended can still
\* take its step.
C19_NoFailureIsolation ==
  /\ [](lastDispatch.by # "none" =>
          (lastDispatch.raised <=>
             \E n \in 1..Len(lastDispatch.cbs) :
               lastDispatch.cbs[n] \in FaultyCallbacks))
  /\ [](lastDispatch.raised =>
          \E n \in 1..Len(lastDispatch.cbs) :
            /\ lastDispatch.cbs[n] \in FaultyCallbacks
            /\ \A i \in 1..(n - 1) : lastDispatch.cbs[i] \notin FaultyCallbacks
            /\ lastDispatch.invoked =
                 [i \in 1..n |-> [cb |-> lastDispatch.cbs[i],
                                  ev |-> lastDispatch.ev]])
  /\ [][\A a \in Agents :
          /\ (pubs' # pubs /\ lastDispatch'.by = a /\ lastDispatch'.raised) =>
               /\ tasks'[a][task[a]].pc = "failed"
               /\ \A b \in Agents \ {a} : tasks'[b] = tasks[b]
          /\ (task[a] # 0 /\ tasks[a][task[a]].pc = "failed") =>
               /\ pubs'[TopicOf(a)] = pubs[TopicOf(a)]
               /\ tasks'[a] = tasks[a]]_vars
  /\ [](\A i \in DOMAIN tasks["weather"] :
          ( /\ tasks["weather"][i].pc = "loop"
            /\ pubs[WX] < MaxPub ) => ENABLED WeatherRun(i))
  /\ [](\A i \in DOMAIN tasks["telemetry"] :
          ( /\ tasks["telemetry"][i].pc = "loop"
            /\ pubs[TEL] < MaxPub ) => ENABLED TelemetryRun(i))

\* The telemetry loop has ended with the exception of a callback subscribed
\* after on_telemetry and before ext1: on_telemetry got the sample, ext1 got
\* nothing, no second sample was published, and the weather loop has
\* published since.
C19_Witness ==
  /\ task["telemetry"] # 0 /\ task["weather"] # 0
  /\ tasks["telemetry"][task["telemetry"]].pc = "failed"
  /\ subs[TEL] = <<"on_telemetry", "faulty", "ext1">>
  /\ pubs[TEL] = 1
  /\ latest_tel # NoneV
  /\ recv["ext1"] = 0
  /\ lastDispatch.by = "weather"
  /\ ~lastDispatch.raised
  /\ tasks["weather"][task["weather"]].pc = "loop"

====
